---- MODULE Spec2Model ----
(***************************************************************************)
(* The device package of aws-iot-device-sdk-go: a Thing owns one MQTT      *)
(* client and builds GetThingShadow / DeleteThingShadow (subscribe to the  *)
(* accepted and rejected topics, publish the trigger, wait on two          *)
(* unbuffered channels, unsubscribe on return) and the long-lived          *)
(* subscriptions on top of it.                                             *)
(*                                                                         *)
(* The MQTT client is the environment.  Its router keeps one handler per   *)
(* topic (a Subscribe on a topic that already has a handler replaces it,   *)
(* an Unsubscribe removes it), hands incoming publishes to the handlers    *)
(* one at a time in arrival order (NewThing leaves the client's ordered    *)
(* delivery on), and every request can be refused; what a refused request  *)
(* leaves behind in the router is left open.                               *)
(***************************************************************************)
EXTENDS Integers, Sequences, FiniteSets, TLC

\* ------------------------------------------------------------ bounds
\* Operations of the Thing started in a run, by all callers together
\* (GetThingShadow, DeleteThingShadow, UpdateThingShadow,
\* UpdateThingShadowDocument, PublishToCustomTopic,
\* SubscribeForThingShadowChanges, SubscribeForCustomTopic).
MaxOps == 3
\* Requests the MQTT client refuses in a run while it is connected.
MaxFaults == 1
\* How many times a session calls UnsubscribeFromCustomTopic.
MaxUnsubs == 1

\* Two independent goroutines calling into the same Thing.
Callers == {1, 2}
\* Shadow payloads ([]byte) the broker may send.
Payloads == {<<1>>, <<2, 3>>}

\* ------------------------------------------------------------ data
thingName == "test"

\* fmt.Sprintf("$aws/things/%s/shadow/<suffix>", t.thingName)
ShadowTopic(suffix) == "$aws/things/" \o thingName \o "/shadow/" \o suffix

Ops == {"get", "delete"}
Sides == {"accepted", "rejected"}

\* The topic a correlated request publishes its trigger to.
RequestTopic(op) == ShadowTopic(op)
\* The outcome topics of a correlated request: "<op>/accepted", "<op>/rejected".
OutcomeTopic(op, side) == ShadowTopic(op \o "/" \o side)

\* ------------------------------------------------------------ custom topics
\* A path string is written as the sequence of its "/"-separated segments:
\* "a//b" is <<"a", "", "b">>, "../x" is <<"..", "x">>, "" has no segment.
\* path.Clean of a path that does not begin with "/": empty and "." segments
\* go, ".." takes back the segment before it (a ".." with nothing to take back
\* stays), and nothing left is ".".
RECURSIVE CleanFrom(_, _)
CleanFrom(segs, out) ==
    IF segs = <<>> THEN out
    ELSE LET h == Head(segs)
         IN CleanFrom(Tail(segs),
                IF h = "" \/ h = "." THEN out
                ELSE IF h = ".."
                     THEN IF out # <<>> /\ out[Len(out)] # ".."
                          THEN SubSeq(out, 1, Len(out) - 1)
                          ELSE Append(out, "..")
                     ELSE Append(out, h))
Clean(segs) == LET out == CleanFrom(segs, <<>>) IN IF out = <<>> THEN <<".">> ELSE out

\* path.Join(a, b, c): the elements joined by "/", then Clean.
PathJoin(a, b, c) == Clean(a \o b \o c)

\* The string a sequence of segments stands for.
RECURSIVE Render(_)
Render(segs) ==
    IF segs = <<>> THEN ""
    ELSE IF Len(segs) = 1 THEN segs[1]
    ELSE segs[1] \o "/" \o Render(Tail(segs))

\* path.Join("$aws/things", t.thingName, topic), as segments and as a string.
CustomPath(suffix) == PathJoin(<<"$aws", "things">>, <<thingName>>, suffix)
CustomTopic(suffix) == Render(CustomPath(suffix))

\* Suffixes callers pass: "shadow/update/documents", "shadow/get/accepted",
\* "../other/fancy".
Suffixes ==
    {<<"shadow", "update", "documents">>, <<"shadow", "get", "accepted">>,
     <<"..", "other", "fancy">>}

\* The trigger payload []byte("{}"): the bytes '{' and '}'.
EmptyJSON == <<123, 125>>

\* A channel made by one call: owner 0 is the caller of
\* SubscribeForThingShadowChanges, n tells the owner's channels apart.
Sink(owner, n, side) == [owner |-> owner, n |-> n, side |-> side]
NoSink == [owner |-> 0, n |-> 0, side |-> "none"]

\* No close() appears anywhere in the package: no channel is ever closed.
closedSinks == {}

\* nil ([]byte or error).
Nil == <<>>
NoError == [src |-> "nil", text |-> "", detail |-> Nil]
\* token.Error() of a refused request.
TokenError(text) == [src |-> "token", text |-> text, detail |-> Nil]
\* string(msg.Payload()): the same bytes.
StringOf(bytes) == [i \in 1..Len(bytes) |-> bytes[i]]
\* errors.New(s), for s made of payload bytes.
ErrorsNew(s) == [src |-> "errors.New", text |-> "", detail |-> s]
\* errors.New("failed to read from ... channel").
ClosedError(text) == [src |-> "errors.New", text |-> text, detail |-> Nil]

\* What a call returns: (Shadow, error); set once the call has decided it.
NoResult == [set |-> FALSE, val |-> Nil, err |-> NoError]
Result(val, err) == [set |-> TRUE, val |-> val, err |-> err]

\* What a method without a result value hands back: the method, the suffix it
\* was given, the topic it derived (for SubscribeForThingShadowChanges the
\* topic of the last Subscribe it made), and its error.  NoReturn: the step
\* just taken was not the return of such a method.
NoReturn == [op |-> "none", suffix |-> <<>>, topic |-> "", err |-> NoError]
Return(op, suffix, topic, err) == [op |-> op, suffix |-> suffix, topic |-> topic, err |-> err]

\* NewThing(keyPair, awsEndpoint, thingName), by what its three fallible steps
\* do.  err is assigned by tls.LoadX509KeyPair and assigned again by
\* ioutil.ReadFile before it is looked at, so the check after ReadFile and the
\* later `if err != nil` both see ReadFile's error only.  dialed: c.Connect()
\* was called.
NewThingOf(keyPairOk, caOk, connectOk) ==
    LET errLoad == IF keyPairOk THEN "nil" ELSE "keypair"
        err == IF caOk THEN "nil" ELSE "ca"
    IN IF err # "nil"
       THEN [made |-> FALSE, err |-> err, dialed |-> FALSE,
             keyPairOk |-> keyPairOk, caOk |-> caOk, connectOk |-> connectOk]
       ELSE IF ~connectOk
       THEN [made |-> FALSE, err |-> "connect", dialed |-> TRUE,
             keyPairOk |-> keyPairOk, caOk |-> caOk, connectOk |-> connectOk]
       ELSE [made |-> TRUE, err |-> "nil", dialed |-> TRUE,
             keyPairOk |-> keyPairOk, caOk |-> caOk, connectOk |-> connectOk]
\* NewThing has not been called.
NoThing == [made |-> FALSE, err |-> "nil", dialed |-> FALSE,
            keyPairOk |-> FALSE, caOk |-> FALSE, connectOk |-> FALSE]

\* Nothing recorded; on tells whether the run records.
\*   subs     channel -> topic, for every channel a durable subscribe returned
\*   live     topic -> the channel returned by the latest successful durable
\*            subscribe of the topic that the caller has not unsubscribed
\*   arrived  channel -> payloads the client received on the channel's topic
\*            while the channel was live
\*   read     channel -> values the caller received from the channel
\*   unsubs   calls of UnsubscribeFromCustomTopic made
NoTrace(on) == [on |-> on, subs |-> <<>>, live |-> <<>>, arrived |-> <<>>,
                read |-> <<>>, unsubs |-> 0]
\* f with k mapped to v.
Bound(f, k, v) == [x \in DOMAIN f \cup {k} |-> IF x = k THEN v ELSE f[x]]
\* f without k.
Without(f, k) == [x \in DOMAIN f \ {k} |-> f[x]]
\* live after a durable subscribe of topic that took the router from rt to
\* rt2: the channel returned when the subscribe succeeded; no channel when it
\* failed with its handler registered all the same (that handler feeds a
\* channel nobody was given); unchanged when it registered nothing.
Relive(live, topic, rt, rt2, ok) ==
    IF ok THEN Bound(live, topic, rt2[topic])
    ELSE IF rt2[topic] # rt[topic] THEN Without(live, topic)
    ELSE live
\* What log holds for channel s.
Seen(log, s) == IF s \in DOMAIN log THEN log[s] ELSE <<>>
\* log with v added at the end of what it holds for channel s.
Logged(log, s, v) ==
    [x \in DOMAIN log \cup {s} |-> IF x = s THEN Append(Seen(log, s), v) ELSE log[x]]

\* ------------------------------------------------------------ credentials
\* type Output struct: the credential bundle.  Output{} is the empty bundle.
EmptyOutput == [accessKeyId |-> "", secretAccessKey |-> "", sessionToken |-> "",
                expiration |-> ""]
IssuedOutput == [accessKeyId |-> "AKIA", secretAccessKey |-> "secret",
                 sessionToken |-> "token", expiration |-> "2030-01-01T00:00:00Z"]
\* Response bodies: a JSON document with a "credentials" object, a JSON
\* document without one (its Output fields stay empty), and bytes that are not
\* JSON.
Bodies == {[json |-> TRUE, credentials |-> IssuedOutput],
           [json |-> TRUE, credentials |-> EmptyOutput],
           [json |-> FALSE, credentials |-> EmptyOutput]}
NoBody == [json |-> FALSE, credentials |-> EmptyOutput]
\* resp.StatusCode values: http.StatusOK and two others.
StatusOK == 200
Statuses == {StatusOK, 403, 500}
\* What the Service meets in one call: whether http.NewRequest accepts s.url,
\* whether client.Do gets a response within the timeout, the response's status
\* and body, and whether the body can be read to its end.
Exchanges ==
    [urlOk : BOOLEAN, doOk : BOOLEAN, status : Statuses, readable : BOOLEAN, body : Bodies]
\* The errors GetCredentials makes (fmt.Errorf): what failed, and for a failed
\* status the status code and the body text put into the message.
NoErr == [failed |-> "nil", status |-> 0, body |-> NoBody]
Errorf(failed) == [failed |-> failed, status |-> 0, body |-> NoBody]
StatusErrorf(status, body) == [failed |-> "status", status |-> status, body |-> body]
\* No call of GetCredentials is under way.
NoExchange == [pc |-> "none", in |-> [urlOk |-> FALSE, doOk |-> FALSE, status |-> 0,
                                      readable |-> FALSE, body |-> NoBody],
               out |-> EmptyOutput, err |-> NoErr]
\* return out, err
Yield(x, out, err) == [x EXCEPT !.pc = "returned", !.out = out, !.err = err]

\* A status branch that reports the status without reading the body.
NotOK_NoBody(in) == StatusErrorf(in.status, NoBody)

\* if resp.StatusCode != http.StatusOK: body, err := ioutil.ReadAll(resp.Body);
\* the error returned.
NotOK(in) ==
    IF ~in.readable THEN Errorf("read body")
    ELSE StatusErrorf(in.status, in.body)

\* json.NewDecoder(resp.Body).Decode(&result), then the return values.
Decoded(in) ==
    IF ~in.readable \/ ~in.body.json
    THEN [out |-> EmptyOutput, err |-> Errorf("decode")]
    ELSE [out |-> in.body.credentials, err |-> NoErr]

VARIABLES
    connected,  \* the client is connected (NewThing succeeded, no Disconnect yet)
    routes,     \* the client's router: topic -> the sink its handler sends into
    call,       \* per caller: the correlated request it is in
    requests,   \* triggers and updates whose answer has not reached a handler yet
    handoff,    \* the handler the router is inside of: blocked in `chan <- payload`
    durable,    \* the shadow-changes subscriber: its channels, whether it reads them
    started,    \* operations started
    faults,     \* requests the connected client has refused
    thing,      \* what NewThing returned
    ret,        \* what the method that returned in the step just taken handed back
    shadow,     \* the shadow document the service holds for the thing (Nil: none)
    trace,      \* when on: what arrived for and was read from durable channels
    exchange    \* the GetCredentials call of the credentials Service

vars == <<connected, routes, call, requests, handoff, durable, started, faults,
         thing, ret, shadow, trace, exchange>>

Topics == {OutcomeTopic(op, side) : op \in Ops, side \in Sides}
            \cup {ShadowTopic("update/accepted"), ShadowTopic("update/rejected")}

\* The topic of every suffix callers pass, derived once.
CustomTopics == [suffix \in Suffixes |-> CustomTopic(suffix)]
\* Every topic a handler can be registered for.
AllTopics == Topics \cup {CustomTopics[suffix] : suffix \in Suffixes}

NoRequest == [owner |-> 0, n |-> 0]
\* before: the callers that entered a correlated request while the handler
\* was already blocked in its send.
NoHandoff == [sink |-> NoSink, topic |-> "", payload |-> Nil,
              sent |-> [val |-> Nil, err |-> NoError], req |-> NoRequest, before |-> {}]

\* A caller that has not called yet.  After a call, pc is "idle" again and res
\* and cleanup keep what the call returned and how its unsubscribe went.
IdleCall == [op |-> "get", n |-> 0, pc |-> "idle", acked |-> {}, pubs |-> 0,
             res |-> NoResult, cleanup |-> "none"]

\* The state NewThing returns: a connected client with no subscription.
Init ==
    /\ connected = TRUE
    /\ routes = [t \in Topics |-> NoSink]
    /\ call = [c \in Callers |-> IdleCall]
    /\ requests = {}
    /\ handoff = NoHandoff
    /\ durable = [held |-> {}, draining |-> TRUE]
    /\ started = 0
    /\ faults = 0
    /\ thing = NewThingOf(TRUE, TRUE, TRUE)
    /\ ret = NoReturn
    /\ shadow = Nil
    /\ trace = NoTrace(FALSE)
    /\ exchange = NoExchange

\* make(chan ...): a channel is new, it is none of the channels a handler
\* still sends into or a caller still holds.  (Its number is the least one
\* free, so that runs differing only in the numbering are the same run.)
SinksInUse(owner) ==
    {routes[t].n : t \in {u \in DOMAIN routes : routes[u].owner = owner}}
        \cup (IF handoff.sink.owner = owner THEN {handoff.sink.n} ELSE {})
        \cup {s.n : s \in {x \in DOMAIN trace.subs : x.owner = owner}}
        \cup (IF owner = 0 THEN {s.n : s \in durable.held} ELSE {})
\* The requests of an owner whose answer is still under way.
RequestsInUse(owner) ==
    {r.n : r \in {q \in requests : q.owner = owner}}
        \cup (IF handoff.req.owner = owner THEN {handoff.req.n} ELSE {})
Least(used) == CHOOSE k \in 1..(Cardinality(used) + 1) :
                  k \notin used /\ \A j \in 1..(k - 1) : j \in used
NewChannels(owner) == Least(SinksInUse(owner) \cup RequestsInUse(owner))
NewRequest(owner) == Least(RequestsInUse(owner))

\* ------------------------------------------------------------ the MQTT client
\* How the client can answer a Subscribe: "ok"; refused before the handler was
\* registered; refused after it was; not connected (nothing is registered).
SubscribeOutcomes(conn, f) ==
    IF ~conn THEN {"notConnected"}
    ELSE IF f < MaxFaults THEN {"ok", "refused", "refusedRouted"} ELSE {"ok"}

\* t.client.Subscribe(topic, 0, handler): the router's handler of topic
\* becomes the one that sends into sink, whichever handler it had.
ClientSubscribe(rt, topic, sink, o) ==
    IF o \in {"ok", "refusedRouted"} THEN [rt EXCEPT ![topic] = sink] ELSE rt

\* How the client can answer an Unsubscribe: "ok"; refused with the handlers
\* kept; not connected (kept).
UnsubscribeOutcomes(conn, f) ==
    IF ~conn THEN {"notConnected"}
    ELSE IF f < MaxFaults THEN {"ok", "refused"} ELSE {"ok"}

\* A client that counts the subscribers of a topic and keeps the handler
\* while one is left.
ClientUnsubscribe_Counted(rt, topics, o) ==
    IF o = "ok"
    THEN [t \in DOMAIN rt |->
            IF t \in topics /\ Cardinality({s \in DOMAIN trace.subs : trace.subs[s] = t}) < 2
            THEN NoSink ELSE rt[t]]
    ELSE rt

\* t.client.Unsubscribe(topics...): the handlers of these topics are removed,
\* whoever registered them.
ClientUnsubscribe(rt, topics, o) ==
    IF o = "ok"
    THEN [t \in DOMAIN rt |-> IF t \in topics THEN NoSink ELSE rt[t]]
    ELSE rt

\* How the client can answer a Publish (QoS 0): sent, or not sent.
PublishOutcomes(conn, f) ==
    IF ~conn THEN {"notConnected"}
    ELSE IF f < MaxFaults THEN {"ok", "refused"} ELSE {"ok"}

\* The refusals counted after a request answered o.
Faults(f, o) == IF o \in {"refused", "refusedRouted"} THEN f + 1 ELSE f

\* token.Error() after a request answered o other than "ok".
ErrorOf(o) == TokenError(IF o = "notConnected" THEN "not connected" ELSE "refused")

\* A request as the broker holds it.
Request(owner, n, topic, payload) ==
    [owner |-> owner, n |-> n, topic |-> topic, payload |-> payload]

\* ------------------------------------------------------------ handlers
\* A handler that sends only the first byte of the payload.
ShadowHandler_FirstByte(payload) == [val |-> SubSeq(payload, 1, 1), err |-> NoError]

\* func(client, msg) { shadowChan <- msg.Payload() }
ShadowHandler(payload) == [val |-> payload, err |-> NoError]
\* A handler that sends an error without the payload.
ErrorHandler_NoDetail(payload) == [val |-> Nil, err |-> ErrorsNew(StringOf(Nil))]

\* func(client, msg) { errChan <- errors.New(string(msg.Payload())) }
ErrorHandler(payload) == [val |-> Nil, err |-> ErrorsNew(StringOf(payload))]

\* Handlers that turn every message on a rejected topic into an error value.
HandlerSend_ErrorOnRejected(s, payload) ==
    IF s.side = "rejected" THEN ErrorHandler(payload)
    ELSE ShadowHandler(payload)

\* What the handler registered for sink s sends into it.  The channels of
\* SubscribeForThingShadowChanges are both fed by a ShadowHandler.
HandlerSend(s, payload) ==
    IF s.owner # 0 /\ s.side = "rejected" THEN ErrorHandler(payload)
    ELSE ShadowHandler(payload)

\* ------------------------------------------------------------ correlated requests
\* The two channels the call caller c is in has made.
OwnSink(c, side) == Sink(c, call[c].n, side)

\* A call that goes on to its next request although the Subscribe failed.
AfterSubscribe_IgnoresError(cl, side, o) ==
    [cl EXCEPT !.pc = IF side = "accepted" THEN "subscribeRejected" ELSE "publish",
               !.acked = IF o = "ok" THEN @ \cup {side} ELSE @]

\* A call that publishes as soon as its first Subscribe is acknowledged.
AfterSubscribe_PublishEarly(cl, side, o) ==
    IF o = "ok"
    THEN [cl EXCEPT !.pc = "publish", !.acked = @ \cup {side}]
    ELSE [cl EXCEPT !.pc = "unsubscribe", !.res = Result(Nil, ErrorOf(o))]

\* Where a call goes after the Subscribe of one outcome topic answered o.
AfterSubscribe(cl, side, o) ==
    IF o = "ok"
    THEN [cl EXCEPT !.pc = IF side = "accepted" THEN "subscribeRejected" ELSE "publish",
                    !.acked = @ \cup {side}]
    ELSE [cl EXCEPT !.pc = "unsubscribe", !.res = Result(Nil, ErrorOf(o))]

\* The call enters: shadowChan := make(chan Shadow); errChan := make(chan error);
\* defer t.unsubscribe(...); then
\* if token := t.client.Subscribe(<op>/accepted, 0, handler); token.Wait() && token.Error() != nil
SubscribeAccepted(c, op) ==
    /\ thing.made
    /\ call[c].pc = "idle"
    /\ started < MaxOps
    /\ started' = started + 1
    /\ \E o \in SubscribeOutcomes(connected, faults) :
         LET entered == [op |-> op, n |-> NewChannels(c), pc |-> "subscribeAccepted",
                         acked |-> {}, pubs |-> 0, res |-> NoResult, cleanup |-> "none"]
         IN /\ routes' = ClientSubscribe(routes, OutcomeTopic(op, "accepted"),
                                         Sink(c, entered.n, "accepted"), o)
            /\ call' = [call EXCEPT ![c] = AfterSubscribe(entered, "accepted", o)]
            /\ faults' = Faults(faults, o)
    /\ handoff' = IF handoff = NoHandoff THEN handoff
                  ELSE [handoff EXCEPT !.before = @ \cup {c}]
    /\ ret' = NoReturn
    /\ UNCHANGED <<connected, requests, durable, thing, shadow, trace, exchange>>

\* if token := t.client.Subscribe(<op>/rejected, 0, handler); token.Wait() && token.Error() != nil
SubscribeRejected(c, op) ==
    /\ call[c].op = op
    /\ call[c].pc = "subscribeRejected"
    /\ \E o \in SubscribeOutcomes(connected, faults) :
         /\ routes' = ClientSubscribe(routes, OutcomeTopic(op, "rejected"),
                                      OwnSink(c, "rejected"), o)
         /\ call' = [call EXCEPT ![c] = AfterSubscribe(@, "rejected", o)]
         /\ faults' = Faults(faults, o)
    /\ ret' = NoReturn
    /\ UNCHANGED <<connected, requests, handoff, durable, started, thing, shadow, trace, exchange>>

\* A call that waits for an answer whether or not its Publish was sent.
AfterPublish_Waits(cl, o) == [cl EXCEPT !.pc = "select", !.pubs = @ + 1]

\* A call that publishes its trigger again when the Publish was refused.
AfterPublish_Retry(cl, o) ==
    IF o = "ok"
    THEN [cl EXCEPT !.pc = "select", !.pubs = @ + 1]
    ELSE [cl EXCEPT !.pc = "publish", !.pubs = @ + 1]

\* Where a call goes after the Publish of its trigger answered o.
AfterPublish(cl, o) ==
    IF o = "ok"
    THEN [cl EXCEPT !.pc = "select", !.pubs = @ + 1]
    ELSE [cl EXCEPT !.pc = "unsubscribe", !.pubs = @ + 1, !.res = Result(Nil, ErrorOf(o))]

\* if token := t.client.Publish(<op>, 0, false, []byte("{}")); token.Wait() && token.Error() != nil
PublishTrigger(c, op) ==
    /\ call[c].op = op
    /\ call[c].pc = "publish"
    /\ \E o \in PublishOutcomes(connected, faults) :
         /\ requests' = IF o = "ok"
                        THEN requests \cup {Request(c, call[c].n, RequestTopic(op), EmptyJSON)}
                        ELSE requests
         /\ call' = [call EXCEPT ![c] = AfterPublish(@, o)]
         /\ faults' = Faults(faults, o)
    /\ ret' = NoReturn
    /\ UNCHANGED <<connected, routes, handoff, durable, started, thing, shadow, trace, exchange>>

\* One case of the select: `case s, ok := <-shadowChan` or `case err, ok := <-errChan`,
\* with what was received and whether the channel was open.
SelectCase(op, side, sent, ok) ==
    IF side = "accepted"
    THEN IF ~ok THEN Result(Nil, ClosedError("failed to read from shadow channel"))
         ELSE Result(IF op = "get" THEN sent.val ELSE Nil, NoError)
    ELSE IF ~ok THEN Result(Nil, ClosedError("failed to read from error channel"))
         ELSE Result(Nil, sent.err)

\* A select that only receives from shadowChan.
SelectSides_AcceptedOnly(op) == {"accepted"}

\* The channels the select of a call receives from.
SelectSides(op) == Sides

\* for { select { ... } }: blocks until the handler of one of the call's own
\* channels is sending (or the channel is closed), and returns on the first.
Select(c, op) ==
    /\ call[c].op = op
    /\ call[c].pc = "select"
    /\ \E side \in SelectSides(op) :
         LET s == OwnSink(c, side) IN
         /\ handoff.sink = s \/ s \in closedSinks
         /\ call' = [call EXCEPT ![c].pc = "unsubscribe",
                                 ![c].res = SelectCase(op, side, handoff.sent, s \notin closedSinks)]
         /\ handoff' = IF handoff.sink = s THEN NoHandoff ELSE handoff
    /\ ret' = NoReturn
    /\ UNCHANGED <<connected, routes, requests, durable, started, faults, thing, shadow, trace, exchange>>

\* A deferred unsubscribe that names only the accepted topic.
DeferredTopics_AcceptedOnly(op) == {OutcomeTopic(op, "accepted")}

\* A deferred unsubscribe copied from GetThingShadow without renaming its topics.
DeferredTopics_GetTopics(op) == {ShadowTopic("get/accepted"), ShadowTopic("get/rejected")}

\* The topics of the deferred t.unsubscribe(<op>/accepted, <op>/rejected).
DeferredTopics(op) == {OutcomeTopic(op, "accepted"), OutcomeTopic(op, "rejected")}

\* A call that returns the error of its unsubscribe when that failed.
Returned_CleanupError(cl, o) ==
    [cl EXCEPT !.pc = "idle", !.n = 0, !.acked = {}, !.pubs = 0,
               !.cleanup = IF o = "ok" THEN "ok" ELSE "failed",
               !.res = IF o = "ok" THEN @ ELSE Result(Nil, ErrorOf(o))]

\* The caller once its call has returned: what was decided before the deferred
\* unsubscribe is what the caller gets, whatever the unsubscribe answered (o);
\* cleanup keeps that answer for the record only.
Returned(cl, o) ==
    [cl EXCEPT !.pc = "idle", !.n = 0, !.acked = {}, !.pubs = 0,
               !.cleanup = IF o = "ok" THEN "ok" ELSE "failed"]

\* The deferred t.unsubscribe(...) runs and the call returns; the error
\* unsubscribe returns is dropped by the defer.
UnsubscribeAndReturn(c, op) ==
    /\ call[c].op = op
    /\ call[c].pc = "unsubscribe"
    /\ \E o \in UnsubscribeOutcomes(connected, faults) :
         /\ routes' = ClientUnsubscribe(routes, DeferredTopics(op), o)
         /\ call' = [call EXCEPT ![c] = Returned(@, o)]
         /\ faults' = Faults(faults, o)
    /\ ret' = NoReturn
    /\ UNCHANGED <<connected, requests, handoff, durable, started, thing, shadow, trace, exchange>>

CorrelatedRequest(c, op) ==
    \/ SubscribeAccepted(c, op)
    \/ SubscribeRejected(c, op)
    \/ PublishTrigger(c, op)
    \/ Select(c, op)
    \/ UnsubscribeAndReturn(c, op)

GetThingShadow(c) == CorrelatedRequest(c, "get")
DeleteThingShadow(c) == CorrelatedRequest(c, "delete")

\* ------------------------------------------------------------ session operations
\* t.client.Disconnect(1): nothing in flight reaches the client afterwards.
Disconnect ==
    /\ thing.made
    /\ connected
    /\ connected' = FALSE
    /\ requests' = {}
    /\ ret' = NoReturn
    /\ UNCHANGED <<routes, call, handoff, durable, started, faults, thing, shadow, trace, exchange>>

\* t.client.Publish(".../shadow/update", 0, false, payload); token.Wait(); return token.Error()
UpdateThingShadow(payload) ==
    /\ thing.made
    /\ started < MaxOps
    /\ started' = started + 1
    /\ \E o \in PublishOutcomes(connected, faults) :
         /\ requests' = IF o = "ok"
                        THEN requests \cup {Request(0, NewRequest(0), ShadowTopic("update"), payload)}
                        ELSE requests
         /\ faults' = Faults(faults, o)
         /\ ret' = Return("UpdateThingShadow", <<>>, ShadowTopic("update"),
                          IF o = "ok" THEN NoError ELSE ErrorOf(o))
    /\ UNCHANGED <<connected, routes, call, handoff, durable, thing, shadow, trace, exchange>>

\* Two channels, a Subscribe of update/accepted, then one of update/rejected;
\* the first refused Subscribe returns (nil, nil, err) and nothing is undone.
SubscribeForThingShadowChanges ==
    /\ thing.made
    /\ started < MaxOps
    /\ started' = started + 1
    /\ LET acc == Sink(0, NewChannels(0), "accepted")
           rej == Sink(0, NewChannels(0), "rejected")
       IN \E o1 \in SubscribeOutcomes(connected, faults) :
            LET r1 == ClientSubscribe(routes, ShadowTopic("update/accepted"), acc, o1)
                f1 == Faults(faults, o1)
            IN IF o1 # "ok"
               THEN /\ routes' = r1
                    /\ faults' = f1
                    /\ UNCHANGED durable
                    /\ ret' = Return("SubscribeForThingShadowChanges", <<>>,
                                     ShadowTopic("update/accepted"), ErrorOf(o1))
                    /\ trace' = IF trace.on
                                 THEN [trace EXCEPT
                                         !.live = Relive(@, ShadowTopic("update/accepted"),
                                                         routes, r1, FALSE)]
                                 ELSE trace
               ELSE \E o2 \in SubscribeOutcomes(connected, f1) :
                      /\ routes' = ClientSubscribe(r1, ShadowTopic("update/rejected"), rej, o2)
                      /\ faults' = Faults(f1, o2)
                      /\ durable' = [durable EXCEPT
                                       !.held = IF o2 = "ok" THEN @ \cup {acc, rej} ELSE @]
                      /\ ret' = Return("SubscribeForThingShadowChanges", <<>>,
                                       ShadowTopic("update/rejected"),
                                       IF o2 = "ok" THEN NoError ELSE ErrorOf(o2))
                      /\ trace' =
                           IF trace.on
                           THEN [trace EXCEPT
                                   !.subs = IF o2 = "ok"
                                            THEN Bound(Bound(@, acc, ShadowTopic("update/accepted")),
                                                       rej, ShadowTopic("update/rejected"))
                                            ELSE @,
                                   !.live = Relive(Relive(@, ShadowTopic("update/accepted"),
                                                          routes, r1, o2 = "ok"),
                                                   ShadowTopic("update/rejected"),
                                                   r1, routes', o2 = "ok")]
                           ELSE trace
    /\ UNCHANGED <<connected, call, requests, handoff, thing, shadow, exchange>>

\* The caller of SubscribeForThingShadowChanges receives from one of the
\* channels it was given.
ReadShadowChanges ==
    /\ durable.draining
    /\ handoff.sink \in durable.held
    /\ handoff' = NoHandoff
    /\ trace' = IF trace.on
                THEN [trace EXCEPT !.read = Logged(@, handoff.sink, handoff.sent.val)]
                ELSE trace
    /\ ret' = NoReturn
    /\ UNCHANGED <<connected, routes, call, requests, durable, started, faults,
                   thing, shadow, exchange>>

\* That caller stops receiving from its channels.
StopDraining ==
    /\ durable.draining
    /\ durable.held # {}
    /\ durable' = [durable EXCEPT !.draining = FALSE]
    /\ ret' = NoReturn
    /\ UNCHANGED <<connected, routes, call, requests, handoff, started, faults, thing, shadow, trace, exchange>>

\* ------------------------------------------------------------ construction, custom topics
\* NewThing is called once, with whatever its three steps do.
NewThing(keyPairOk, caOk, connectOk) ==
    /\ thing = NoThing
    /\ thing' = NewThingOf(keyPairOk, caOk, connectOk)
    /\ connected' = thing'.made
    /\ ret' = NoReturn
    /\ UNCHANGED <<routes, call, requests, handoff, durable, started, faults, shadow, trace, exchange>>

\* token := t.client.Publish(topic, 0, false, []byte(payload)); token.Wait();
\* return token.Error()
FireAndAcknowledge(op, suffix, topic, payload) ==
    /\ thing.made
    /\ started < MaxOps
    /\ started' = started + 1
    /\ \E o \in PublishOutcomes(connected, faults) :
         /\ requests' = IF o = "ok"
                        THEN requests \cup {Request(0, NewRequest(0), topic, payload)}
                        ELSE requests
         /\ faults' = Faults(faults, o)
         /\ ret' = Return(op, suffix, topic, IF o = "ok" THEN NoError ELSE ErrorOf(o))
    /\ UNCHANGED <<connected, routes, call, handoff, durable, thing, shadow, trace, exchange>>

\* A document update published to the update topic instead.
UpdateThingShadowDocument_UpdateTopic(payload) ==
    FireAndAcknowledge("UpdateThingShadowDocument", <<>>, ShadowTopic("update"), payload)

\* t.client.Publish(".../shadow/update/documents", 0, false, payload)
UpdateThingShadowDocument(payload) ==
    FireAndAcknowledge("UpdateThingShadowDocument", <<>>,
                       ShadowTopic("update/documents"), payload)

\* t.client.Publish(path.Join("$aws/things", t.thingName, topic), 0, false, payload)
PublishToCustomTopic(payload, suffix) ==
    FireAndAcknowledge("PublishToCustomTopic", suffix, CustomTopics[suffix], payload)

\* shadowChan := make(chan Shadow); Subscribe(path.Join(...), 0, handler);
\* a refused Subscribe returns (nil, err), else the channel is returned.
SubscribeForCustomTopic(suffix) ==
    /\ thing.made
    /\ started < MaxOps
    /\ started' = started + 1
    /\ LET shadowChan == Sink(0, NewChannels(0), "custom")
           topic == CustomTopics[suffix]
       IN \E o \in SubscribeOutcomes(connected, faults) :
            /\ routes' = ClientSubscribe(routes, topic, shadowChan, o)
            /\ faults' = Faults(faults, o)
            /\ durable' = [durable EXCEPT !.held = IF o = "ok" THEN @ \cup {shadowChan} ELSE @]
            /\ ret' = Return("SubscribeForCustomTopic", suffix, topic,
                             IF o = "ok" THEN NoError ELSE ErrorOf(o))
            /\ trace' = IF trace.on
                        THEN [trace EXCEPT
                                !.subs = IF o = "ok" THEN Bound(@, shadowChan, topic) ELSE @,
                                !.live = Relive(@, topic, routes, routes', o = "ok")]
                        ELSE trace
    /\ UNCHANGED <<connected, call, requests, handoff, thing, shadow, exchange>>

\* return t.unsubscribe(path.Join("$aws/things", t.thingName, topic))
UnsubscribeFromCustomTopic(suffix) ==
    /\ thing.made
    /\ trace.unsubs < MaxUnsubs
    /\ \E o \in UnsubscribeOutcomes(connected, faults) :
         /\ routes' = ClientUnsubscribe(routes, {CustomTopics[suffix]}, o)
         /\ faults' = Faults(faults, o)
         /\ ret' = Return("UnsubscribeFromCustomTopic", suffix, CustomTopics[suffix],
                          IF o = "ok" THEN NoError ELSE ErrorOf(o))
         /\ trace' = [trace EXCEPT !.unsubs = @ + 1,
                                   !.live = IF o = "ok" THEN Without(@, CustomTopics[suffix])
                                            ELSE @]
    /\ UNCHANGED <<connected, call, requests, handoff, durable, started, thing, shadow, exchange>>

\* ------------------------------------------------------------ broker and delivery
\* The payloads the broker may answer request r with on <topic>/<side>: an
\* accepted update carries the update's payload, an accepted get the document
\* the service holds (none held: the service only rejects), a rejection any
\* payload; a forwarded publish carries its own payload.
AnswerPayloads(r, side) ==
    IF side = "forward" THEN {r.payload}
    ELSE IF side = "rejected" THEN Payloads
    ELSE IF r.topic = ShadowTopic("update") THEN {r.payload}
    ELSE IF shadow = Nil THEN {}
    ELSE IF r.topic = RequestTopic("get") THEN {shadow}
    ELSE Payloads

\* The topics the shadow service answers on "<topic>/accepted" or
\* "<topic>/rejected"; a publish on any other topic is forwarded as it is to
\* the subscriber of that topic.
ServiceTopics == {ShadowTopic("get"), ShadowTopic("update"), ShadowTopic("delete")}
AnswerSides(r) == IF r.topic \in ServiceTopics THEN Sides ELSE {"forward"}

\* The one message the broker answers request r with.
Answer(r, side, p) ==
    [topic |-> IF side = "forward" THEN r.topic ELSE r.topic \o "/" \o side,
     payload |-> p,
     req |-> [owner |-> r.owner, n |-> r.n]]

\* The document the service holds after it answered request r with p on side.
ShadowAfter(r, side, p) ==
    IF side # "accepted" THEN shadow
    ELSE IF r.topic = ShadowTopic("update") THEN p
    ELSE IF r.topic = RequestTopic("delete") THEN Nil
    ELSE shadow

\* The broker's answer to a request arrives and the client's router calls the
\* handler of its topic, which blocks in its channel send; a publish on a topic
\* with no handler is dropped.  The router calls one handler at a time, so
\* nothing is dispatched while a handler is blocked.
Deliver(r, side, p) ==
    /\ connected
    /\ handoff = NoHandoff
    /\ r \in requests
    /\ requests' = requests \ {r}
    /\ LET m == Answer(r, side, p)
           s == IF m.topic \in DOMAIN routes THEN routes[m.topic] ELSE NoSink
       IN /\ handoff' = IF s = NoSink THEN NoHandoff
                        ELSE [sink |-> s, topic |-> m.topic, payload |-> m.payload,
                              sent |-> HandlerSend(s, m.payload), req |-> m.req,
                              before |-> {}]
          /\ trace' = IF trace.on /\ s # NoSink /\ m.topic \in DOMAIN trace.live
                      THEN [trace EXCEPT
                              !.arrived = Logged(@, trace.live[m.topic], m.payload)]
                      ELSE trace
    /\ shadow' = ShadowAfter(r, side, p)
    /\ ret' = NoReturn
    /\ UNCHANGED <<connected, routes, call, durable, started, faults, thing, exchange>>

\* Some answer is delivered.
Delivery ==
    \E r \in requests : \E side \in AnswerSides(r) :
        \E p \in AnswerPayloads(r, side) : Deliver(r, side, p)

Next ==
    \/ \E c \in Callers : GetThingShadow(c)
    \/ \E c \in Callers : DeleteThingShadow(c)
    \/ Disconnect
    \/ \E p \in Payloads : UpdateThingShadow(p)
    \/ SubscribeForThingShadowChanges
    \/ ReadShadowChanges
    \/ StopDraining
    \/ Delivery

Spec == Init /\ [][Next]_vars

\* ------------------------------------------------------------ one session from NewThing on
\* Before NewThing: no Thing, no connection; the run records what is published,
\* handed to the handlers of durable channels and read from them.
SessionInit ==
    /\ connected = FALSE
    /\ routes = [t \in AllTopics |-> NoSink]
    /\ call = [c \in Callers |-> IdleCall]
    /\ requests = {}
    /\ handoff = NoHandoff
    /\ durable = [held |-> {}, draining |-> TRUE]
    /\ started = 0
    /\ faults = 0
    /\ thing = NoThing
    /\ ret = NoReturn
    /\ shadow = Nil
    /\ trace = NoTrace(TRUE)
    /\ exchange = NoExchange

\* One goroutine makes the correlated requests of the session.
SessionCaller == 1

SessionNext ==
    \/ \E keyPairOk, caOk, connectOk \in BOOLEAN : NewThing(keyPairOk, caOk, connectOk)
    \/ \E suffix \in Suffixes : SubscribeForCustomTopic(suffix)
    \/ \E suffix \in Suffixes : UnsubscribeFromCustomTopic(suffix)
    \/ \E p \in Payloads, suffix \in Suffixes : PublishToCustomTopic(p, suffix)
    \/ \E p \in Payloads : UpdateThingShadowDocument(p)
    \/ \E p \in Payloads : UpdateThingShadow(p)
    \/ SubscribeForThingShadowChanges
    \/ GetThingShadow(SessionCaller)
    \/ DeleteThingShadow(SessionCaller)
    \/ ReadShadowChanges
    \/ Delivery

SessionSpec == SessionInit /\ [][SessionNext]_vars

\* Scheduling: a goroutine inside a call runs on (every token.Wait() returns,
\* a select with a sender ready proceeds, the deferred unsubscribe runs); the
\* broker answers and the router dispatches whenever no handler is blocked; a
\* caller that is draining its shadow-changes channels keeps receiving.
\* Nothing obliges a caller to start an operation, to stop draining or to
\* disconnect.
Fairness ==
    /\ \A c \in Callers : \A op \in Ops :
          /\ WF_vars(SubscribeRejected(c, op))
          /\ WF_vars(PublishTrigger(c, op))
          /\ WF_vars(Select(c, op))
          /\ WF_vars(UnsubscribeAndReturn(c, op))
    /\ WF_vars(Delivery)
    /\ WF_vars(ReadShadowChanges)

FairSpec == Spec /\ Fairness

\* A connected Thing whose one goroutine calls every session operation and, at
\* some point, Disconnect.
ClosingInit ==
    /\ connected = TRUE
    /\ routes = [t \in AllTopics |-> NoSink]
    /\ call = [c \in Callers |-> IdleCall]
    /\ requests = {}
    /\ handoff = NoHandoff
    /\ durable = [held |-> {}, draining |-> TRUE]
    /\ started = 0
    /\ faults = 0
    /\ thing = NewThingOf(TRUE, TRUE, TRUE)
    /\ ret = NoReturn
    /\ shadow = Nil
    /\ trace = NoTrace(FALSE)
    /\ exchange = NoExchange

ClosingNext ==
    \/ Disconnect
    \/ GetThingShadow(SessionCaller)
    \/ DeleteThingShadow(SessionCaller)
    \/ \E p \in Payloads : UpdateThingShadow(p)
    \/ \E p \in Payloads : UpdateThingShadowDocument(p)
    \/ SubscribeForThingShadowChanges
    \/ \E suffix \in Suffixes : SubscribeForCustomTopic(suffix)
    \/ \E p \in Payloads, suffix \in Suffixes : PublishToCustomTopic(p, suffix)
    \/ ReadShadowChanges
    \/ Delivery

ClosingSpec == ClosingInit /\ [][ClosingNext]_vars

\* ------------------------------------------------------------ credentials Service
\* req, err := http.NewRequest("GET", s.url, nil)
HttpNewRequest ==
    /\ exchange.pc = "request"
    /\ exchange' = IF exchange.in.urlOk THEN [exchange EXCEPT !.pc = "do"]
                   ELSE Yield(exchange, EmptyOutput, Errorf("create request"))
    /\ UNCHANGED <<connected, routes, call, requests, handoff, durable, started, faults,
                   thing, ret, shadow, trace>>

\* resp, err := client.Do(req)
Do ==
    /\ exchange.pc = "do"
    /\ exchange' = IF exchange.in.doOk THEN [exchange EXCEPT !.pc = "status"]
                   ELSE Yield(exchange, EmptyOutput, Errorf("perform request"))
    /\ UNCHANGED <<connected, routes, call, requests, handoff, durable, started, faults,
                   thing, ret, shadow, trace>>

\* if resp.StatusCode != http.StatusOK { ... return Output{}, fmt.Errorf(...) }
CheckStatus ==
    /\ exchange.pc = "status"
    /\ exchange' = IF exchange.in.status # StatusOK
                   THEN Yield(exchange, EmptyOutput, NotOK(exchange.in))
                   ELSE [exchange EXCEPT !.pc = "decode"]
    /\ UNCHANGED <<connected, routes, call, requests, handoff, durable, started, faults,
                   thing, ret, shadow, trace>>

\* Decode the body and return.
Decode ==
    /\ exchange.pc = "decode"
    /\ exchange' = Yield(exchange, Decoded(exchange.in).out, Decoded(exchange.in).err)
    /\ UNCHANGED <<connected, routes, call, requests, handoff, durable, started, faults,
                   thing, ret, shadow, trace>>

\* A Service about to call GetCredentials, in any of the situations it can meet.
CredentialsInit ==
    /\ connected = FALSE
    /\ routes = [t \in AllTopics |-> NoSink]
    /\ call = [c \in Callers |-> IdleCall]
    /\ requests = {}
    /\ handoff = NoHandoff
    /\ durable = [held |-> {}, draining |-> TRUE]
    /\ started = 0
    /\ faults = 0
    /\ thing = NoThing
    /\ ret = NoReturn
    /\ shadow = Nil
    /\ trace = NoTrace(FALSE)
    /\ \E in \in Exchanges :
         exchange = [pc |-> "request", in |-> in, out |-> EmptyOutput, err |-> NoErr]

CredentialsNext == HttpNewRequest \/ Do \/ CheckStatus \/ Decode

CredentialsSpec == CredentialsInit /\ [][CredentialsNext]_vars

\* ------------------------------------------------------------ properties
\* Caller c's call decides its result on a message (the select receives).
Resolves(c) == call[c].pc = "select" /\ call'[c].pc = "unsubscribe"
\* Caller c's call returns (its deferred unsubscribe has run).
Returns(c) == call[c].pc = "unsubscribe" /\ call'[c].pc = "idle"
\* The step is a request the client refused.
Refused == faults' = faults + 1 \/ ~connected
\* No handler is registered for either outcome topic of op after the step.
TornDown(op) == \A side \in Sides : routes'[OutcomeTopic(op, side)] = NoSink
\* What a call must return when its select received payload on side.
Expected(op, side, payload) ==
    IF side = "accepted"
    THEN [set |-> TRUE, val |-> IF op = "get" THEN payload ELSE Nil, err |-> NoError]
    ELSE [set |-> TRUE, val |-> Nil,
          err |-> [src |-> "errors.New", text |-> "", detail |-> payload]]

\* C1: a correlated request publishes its trigger only after the Subscribe of
\* its accepted topic and the Subscribe of its rejected topic have both been
\* acknowledged: no call has published, or is about to, with one of them missing.
C1_PublishAfterSubscriptions ==
    \A c \in Callers :
        (call[c].pubs > 0 \/ call[c].pc \in {"publish", "select"}) => call[c].acked = Sides

\* A call has published its trigger and waits.
C1_Witness == \E c \in Callers : call[c].pc = "select" /\ call[c].pubs = 1

C3_SubscribeFailureNoPublish ==
    \A c \in Callers :
        call[c].pc # "idle" =>
            /\ call[c].pubs <= 1
            /\ (call[c].acked # Sides =>
                    /\ call[c].pubs = 0
                    /\ \/ call[c].pc = "subscribeRejected" /\ call[c].acked = {"accepted"}
                       \/ /\ call[c].pc = "unsubscribe"
                          /\ call[c].res.set
                          /\ call[c].res.val = Nil
                          /\ call[c].res.err.src = "token")

\* The second Subscribe of a call was refused: the call is about to return the
\* error without having published.
C3_Witness ==
    \E c \in Callers :
        call[c].pc = "unsubscribe" /\ call[c].acked = {"accepted"} /\ call[c].pubs = 0

OwnSinks(c) == {OwnSink(c, side) : side \in Sides}
\* A result that is an accepted shadow or a rejection.
DefinedOutcome(res) ==
    /\ res.set
    /\ \/ res.err = NoError
       \/ res.err.src = "errors.New" /\ res.err.text = "" /\ res.val = Nil

ClosedErrors ==
    {ClosedError("failed to read from shadow channel"),
     ClosedError("failed to read from error channel")}

\* C6 as stated: a call that waits in its select when the client has been
\* disconnected and no message is on its way into the call's channels
\* eventually returns a "failed to read from ... channel" error.
C6_DisconnectResolvesClosed ==
    \A c \in Callers :
        (call[c].pc = "select" /\ ~connected /\ handoff.sink \notin OwnSinks(c))
            ~> (call[c].pc = "idle" /\ call[c].res.err \in ClosedErrors)

\* The outcome topic of operation name op on side, written out.
TopicOf(op, side) == "$aws/things/test/shadow/" \o op \o "/" \o side
\* Caller c has entered a call in this session.
Began(c) == call[c].pc # "idle" \/ call[c].res.set
\* At most two operations were started and no two callers have called the same
\* operation: there never were two calls of one operation at once.
NoTwoOfOneOp ==
    /\ started <= 2
    /\ \A c, d \in Callers : (c # d /\ Began(c) /\ Began(d)) => call[c].op # call[d].op

\* C7: with GetThingShadow and DeleteThingShadow running side by side, a
\* message handed to one of a call's channels is on the outcome topic of that
\* call's own operation and side; as long as no two callers have called the same
\* operation (of at most two operations started), a call resolves on the answer
\* to the request it published itself; and a step of a
\* call (its subscribes, its cleanup) changes no handler of the other operation's
\* topics.
C7_GetAndDeleteIndependent ==
    [][\A c \in Callers :
         /\ \A side \in Sides :
               (call[c].pc # "idle" /\ handoff.sink = OwnSink(c, side)) =>
                   handoff.topic = TopicOf(call[c].op, side)
         /\ (Resolves(c) /\ NoTwoOfOneOp) =>
               handoff.req = [owner |-> c, n |-> call[c].n]
         /\ \A op \in Ops :
               ((call[c].pc # "idle" \/ call'[c].pc # "idle")
                    /\ call'[c] # call[c] /\ call'[c].op # op /\ call[c].op # op
                    /\ \A d \in Callers \ {c} : call'[d] = call[d]) =>
                   \A side \in Sides : routes'[TopicOf(op, side)] = routes[TopicOf(op, side)]]_vars

\* A GetThingShadow and a DeleteThingShadow wait at the same time, each with
\* both of its handlers registered, and a delete answer is being handed to the
\* delete call in answer to its own request.
C7_Witness ==
    \E c, d \in Callers :
        /\ NoTwoOfOneOp
        /\ handoff.req = [owner |-> d, n |-> call[d].n]
        /\ call[c].op = "get" /\ call[c].pc = "select"
        /\ call[d].op = "delete" /\ call[d].pc = "select"
        /\ \A side \in Sides :
              /\ routes[TopicOf("get", side)] = OwnSink(c, side)
              /\ routes[TopicOf("delete", side)] = OwnSink(d, side)
        /\ handoff.sink \in OwnSinks(d)

\* C8 as stated: while a call has published or is about to, and one of its
\* outcome topics is routed to its own channel, no step of anyone else replaces
\* or removes that handler.
C8_PrivateSubscriptionPair ==
    [][\A c \in Callers : \A side \in Sides :
         (/\ call[c].pc \in {"publish", "select"}
          /\ call'[c] = call[c]
          /\ routes[OutcomeTopic(call[c].op, side)] = OwnSink(c, side)) =>
             routes'[OutcomeTopic(call[c].op, side)] = OwnSink(c, side)]_vars

\* The goroutine that receives from sink s is at its receive.
ConsumerReady(s) ==
    \/ s \in durable.held /\ durable.draining
    \/ \E c \in Callers : call[c].pc = "select" /\ s \in OwnSinks(c)

\* C9 as stated: no handler is ever inside its channel send with nobody
\* receiving from that channel.
C9_HandlersNeverBlock ==
    handoff = NoHandoff \/ ConsumerReady(handoff.sink)

\* The request caller c's running call has published is still unanswered.
OwnRequestPending(c) ==
    \E r \in requests : r.owner = c /\ r.n = call[c].n /\ r.topic = RequestTopic(call[c].op)

\* C10 as stated: a call that waits for the answer to its request while a
\* handler is stuck sending into a change channel nobody reads any more still
\* resolves (as long as the client stays connected).
C10_UndrainedSinkDoesNotBlock ==
    \A c \in Callers :
        (/\ call[c].pc = "select" /\ connected /\ OwnRequestPending(c)
         /\ handoff.sink \in durable.held /\ ~durable.draining)
            ~> (call[c].pc # "select" \/ ~connected)

\* ------------------------------------------------------------ durable subscriptions
\* The value the handler feeding channel s is sending right now, if any.
InHandler(s) ==
    IF handoff # NoHandoff /\ handoff.sink = s THEN <<handoff.sent.val>> ELSE <<>>

\* C11 as stated: for every channel a durable subscribe returned, the messages
\* the client received on the channel's topic while the subscription was the
\* caller's live one are exactly the values read from the channel, in the same
\* order, followed by the one value its handler is sending at the moment (the
\* caller keeps reading): nothing is lost, duplicated or reordered.
C11_EveryArrivalReadInOrder ==
    \A s \in DOMAIN trace.subs :
        Seen(trace.arrived, s) = Seen(trace.read, s) \o InHandler(s)

\* C12 as stated: a durable subscription stays the one its topic is routed
\* to: whatever other operations run, the client's handler for a topic with a
\* live durable subscription feeds the channel that subscription returned,
\* until the caller itself unsubscribes the topic.
C12_NeverRedirected ==
    \A t \in DOMAIN trace.live : routes[t] = trace.live[t]

\* ------------------------------------------------------------ custom topics
\* C13 as stated: a message published to a topic that has a live durable
\* subscription is, when the broker sends it back, handed to the channel that
\* subscription returned, and the value sent into the channel is the published
\* payload, byte for byte.
C13_PublishedPayloadDelivered ==
    [][\A r \in requests \ requests' :
          r.topic \in DOMAIN trace.live =>
              /\ handoff'.sink = trace.live[r.topic]
              /\ handoff'.sent.val = r.payload]_vars

\* The methods that derive a topic from a caller-supplied suffix.
CustomOps == {"PublishToCustomTopic", "SubscribeForCustomTopic", "UnsubscribeFromCustomTopic"}
\* The segments every topic of the session's own thing starts with.
Namespace == <<"$aws", "things", thingName>>

\* C14 as stated: the topic a custom-topic method derived from its suffix lies
\* in the namespace of the session's thing: its leading segments are
\* "$aws", "things" and the thing name.
C14_TopicInsideNamespace ==
    ret.op \in CustomOps =>
        LET derived == CustomPath(ret.suffix)
        IN /\ ret.topic = Render(derived)
           /\ Len(derived) >= Len(Namespace)
           /\ SubSeq(derived, 1, Len(Namespace)) = Namespace

\* ------------------------------------------------------------ shadow updates
\* The step hands a message to the handler of topic.
HandsOver(topic) == handoff = NoHandoff /\ handoff' # NoHandoff /\ handoff'.topic = topic

\* C15: UpdateThingShadow returns in the step of its publish, with the
\* publish's own result: nil exactly when the update was sent, an error only
\* when the client refused the publish; it receives from no channel and takes
\* no message.  A rejection of the update is a later message on
\* update/rejected: with SubscribeForThingShadowChanges established it is sent
\* into the failure channel that call returned, as a value carrying the
\* rejection payload, and no method returns an error for it.
C15_UpdateIsFireAndAcknowledge ==
    [][/\ ret'.op = "UpdateThingShadow" =>
            /\ ret'.err = NoError <=>
                  \E r \in requests' \ requests : r.topic = ShadowTopic("update")
            /\ ret'.err # NoError => Refused /\ requests' = requests
            /\ handoff' = handoff /\ call' = call
       /\ (HandsOver(ShadowTopic("update/rejected"))
             /\ routes[ShadowTopic("update/rejected")] \in durable.held) =>
            /\ handoff'.sink = routes[ShadowTopic("update/rejected")]
            /\ handoff'.sink.side = "rejected"
            /\ handoff'.sent = [val |-> handoff'.payload, err |-> NoError]
            /\ ret' = NoReturn
            /\ \E r \in requests \ requests' : r.topic = ShadowTopic("update")]_vars

\* An update that returned nil was rejected, and the rejection is being handed
\* to the failure channel of SubscribeForThingShadowChanges.
C15_Witness ==
    /\ handoff.topic = ShadowTopic("update/rejected")
    /\ handoff.sink \in durable.held
    /\ handoff.sink.side = "rejected"
    /\ handoff.sent.val \in Payloads

\* C16: with SubscribeForThingShadowChanges established, an UpdateThingShadow(p)
\* the client did not refuse returns nil; when the service accepts it, the
\* success channel is sent p itself, which is then the shadow the service
\* holds; and a GetThingShadow that returns without error returns the shadow
\* the service holds, that is the payload of the last accepted update.
C16_UpdateThenGetRoundTrip ==
    [][/\ (ret'.op = "UpdateThingShadow" /\ ~Refused) => ret'.err = NoError
       /\ (HandsOver(ShadowTopic("update/accepted"))
             /\ routes[ShadowTopic("update/accepted")] \in durable.held) =>
            /\ handoff'.sink = routes[ShadowTopic("update/accepted")]
            /\ \E r \in requests \ requests' :
                 /\ r.topic = ShadowTopic("update")
                 /\ handoff'.sent = [val |-> r.payload, err |-> NoError]
                 /\ shadow' = r.payload
       /\ \A c \in Callers :
            (Resolves(c) /\ call[c].op = "get" /\ call'[c].res.err = NoError) =>
                /\ call'[c].res.val = shadow
                /\ shadow \in Payloads]_vars

\* A GetThingShadow has returned the accepted update's payload while the
\* channels of SubscribeForThingShadowChanges are held and read.
C16_Witness ==
    \E c \in Callers :
        /\ call[c].op = "get" /\ call[c].pc = "unsubscribe"
        /\ call[c].res.set /\ call[c].res.err = NoError
        /\ call[c].res.val = shadow /\ shadow \in Payloads
        /\ routes[ShadowTopic("update/accepted")] \in durable.held
        /\ durable.draining

\* ------------------------------------------------------------ construction
\* C17 as stated: NewThing returns a Thing exactly when loading the key pair,
\* reading the CA file and connecting all succeeded, returns an error exactly
\* when it returns no Thing, and does not call Connect after the key pair or
\* the CA file failed.
C17_ConstructionFailsOnAnyFailure ==
    thing # NoThing =>
        /\ thing.made <=> (thing.keyPairOk /\ thing.caOk /\ thing.connectOk)
        /\ thing.made <=> thing.err = "nil"
        /\ (~thing.keyPairOk \/ ~thing.caOk) => ~thing.dialed

\* ------------------------------------------------------------ unsubscribing
\* C18: every successful SubscribeForCustomTopic returns a channel of its own,
\* none of the channels returned before, also for a suffix subscribed already;
\* one successful UnsubscribeFromCustomTopic leaves the topic without a
\* handler, however many subscribes of it there were; and a message is only
\* ever handed to a returned channel that is the live one of its topic, so
\* after the unsubscribe none of the channels returned for the suffix gets a
\* message published to it.
C18_UnsubscribeEndsEverySink ==
    [][/\ (ret'.op = "SubscribeForCustomTopic" /\ ret'.err = NoError) =>
            /\ routes'[ret'.topic] \notin DOMAIN trace.subs
            /\ routes'[ret'.topic] \in DOMAIN trace'.subs
            /\ trace'.subs[routes'[ret'.topic]] = ret'.topic
       /\ (ret'.op = "UnsubscribeFromCustomTopic" /\ ret'.err = NoError) =>
            /\ routes'[ret'.topic] = NoSink
            /\ ret'.topic \notin DOMAIN trace'.live
       /\ \A t \in DOMAIN routes :
            (HandsOver(t) /\ handoff'.sink \in DOMAIN trace.subs) =>
                /\ t \in DOMAIN trace.live
                /\ trace.live[t] = handoff'.sink]_vars

\* Two channels were returned for one suffix, the suffix was unsubscribed, and
\* a message has been published to it since.
C18_Witness ==
    \E s1, s2 \in DOMAIN trace.subs :
        /\ s1 # s2
        /\ trace.subs[s1] = trace.subs[s2]
        /\ trace.subs[s1] \notin DOMAIN trace.live
        /\ routes[trace.subs[s1]] = NoSink
        /\ trace.unsubs = 1
        /\ ret.op = "PublishToCustomTopic" /\ ret.topic = trace.subs[s1] /\ ret.err = NoError

\* ------------------------------------------------------------ shadow documents
\* The suffix of the shadow document topic, as a caller passes it.
DocumentsSuffix == <<"shadow", "update", "documents">>

\* C19: the topic the custom-topic methods derive from the suffix
\* "shadow/update/documents" is the very topic UpdateThingShadowDocument
\* publishes to; an UpdateThingShadowDocument that returned nil has published
\* its payload there; and with a live SubscribeForCustomTopic of that suffix a
\* message published there is handed to the returned channel with the
\* published bytes.
C19_DocumentTopicAgrees ==
    [][/\ Render(PathJoin(<<"$aws", "things">>, <<thingName>>, DocumentsSuffix))
            = ShadowTopic("update/documents")
       /\ (ret'.op = "UpdateThingShadowDocument" /\ ret'.err = NoError) =>
            \E r \in requests' \ requests :
                r.topic = CustomTopics[DocumentsSuffix] /\ r.payload \in Payloads
       /\ \A r \in requests \ requests' :
            (r.topic = ShadowTopic("update/documents")
               /\ CustomTopics[DocumentsSuffix] \in DOMAIN trace.live) =>
                /\ handoff'.sink = trace.live[CustomTopics[DocumentsSuffix]]
                /\ handoff'.sink.side = "custom"
                /\ handoff'.sent = [val |-> r.payload, err |-> NoError]]_vars

\* UpdateThingShadowDocument has just returned nil while the channel of
\* SubscribeForCustomTopic("shadow/update/documents") is subscribed, and its
\* message is on its way.
C19_Witness ==
    /\ ret.op = "UpdateThingShadowDocument" /\ ret.err = NoError
    /\ CustomTopics[DocumentsSuffix] \in DOMAIN trace.live
    /\ routes[ShadowTopic("update/documents")] = trace.live[CustomTopics[DocumentsSuffix]]
    /\ \E r \in requests : r.topic = ShadowTopic("update/documents")

\* ------------------------------------------------------------ publish errors
\* The methods that publish once and return the publish's error.
FireAndAcknowledgeOps == {"UpdateThingShadow", "UpdateThingShadowDocument", "PublishToCustomTopic"}
\* The error of a publish the client did not send, as the client reports it.
PublishError == TokenError(IF connected THEN "refused" ELSE "not connected")

\* C20: when the client does not send the trigger of a correlated request, the
\* call takes that publish's error as its result in the same step and goes
\* straight to its return, receiving from neither channel and taking no
\* message; and a fire-and-acknowledge method returns nil exactly when its one
\* publish was sent on its topic, and otherwise the error of that publish,
\* likewise without taking any message.
C20_PublishErrorReturned ==
    [][/\ \A c \in Callers :
            (call[c].pc = "publish" /\ call'[c] # call[c] /\ requests' = requests) =>
                /\ Refused
                /\ call'[c].pc = "unsubscribe"
                /\ call'[c].res = [set |-> TRUE, val |-> Nil, err |-> PublishError]
                /\ handoff' = handoff
       /\ \A c \in Callers :
            (call[c].pc = "publish" /\ call'[c] # call[c] /\ requests' # requests) =>
                /\ call'[c].pc = "select"
                /\ ~call'[c].res.set
       /\ ret'.op \in FireAndAcknowledgeOps =>
            /\ handoff' = handoff /\ call' = call
            /\ IF ret'.err = NoError
               THEN \E r \in requests' \ requests :
                       /\ requests' = requests \cup {r}
                       /\ r.topic = ret'.topic
               ELSE /\ Refused
                    /\ requests' = requests
                    /\ ret'.err = PublishError]_vars

\* A GetThingShadow or DeleteThingShadow whose trigger the client refused is
\* about to return the publish error.
C20_Witness ==
    \E c \in Callers :
        /\ call[c].pc = "unsubscribe"
        /\ call[c].pubs = 1
        /\ call[c].res = [set |-> TRUE, val |-> Nil, err |-> TokenError("refused")]

\* ------------------------------------------------------------ cleanup
\* C21: the result a correlated request decided (the accepted payload, the
\* rejection error, the subscribe error or the publish error) is the result
\* its caller gets: the return step, in which the deferred unsubscribe runs,
\* leaves it as it was, whether the unsubscribe succeeded or failed.
C21_ResultIndependentOfCleanup ==
    [][\A c \in Callers :
          Returns(c) =>
              /\ call[c].res.set
              /\ call'[c].res = call[c].res
              /\ call'[c].cleanup \in {"ok", "failed"}]_vars

\* A GetThingShadow returned the accepted payload with a nil error although
\* its cleanup unsubscribe failed.
C21_Witness ==
    \E c \in Callers :
        /\ call[c].pc = "idle" /\ call[c].op = "get"
        /\ call[c].cleanup = "failed"
        /\ call[c].res.set /\ call[c].res.err = NoError
        /\ call[c].res.val \in Payloads

\* ------------------------------------------------------------ failed subscriptions
\* C22 as stated: when SubscribeForThingShadowChanges returns an error, no
\* subscription the call made stays behind: if the Subscribe that failed was
\* the one of update/rejected, the handler of update/accepted is not the one
\* the call registered but whatever it was before the call, and every handler
\* of the two topics feeds a channel some caller was given.
C22_NoSubscriptionLeftOnFailure ==
    [][(ret'.op = "SubscribeForThingShadowChanges" /\ ret'.err # NoError
          /\ ret'.topic = ShadowTopic("update/rejected")) =>
            /\ routes'[ShadowTopic("update/accepted")] = routes[ShadowTopic("update/accepted")]
            /\ routes'[ShadowTopic("update/accepted")] \in durable'.held \cup {NoSink}]_vars

\* ------------------------------------------------------------ after Disconnect
\* The error the client gives a request made while it is not connected.
NotConnected == TokenError("not connected")

\* C23: once the client is disconnected, every session operation returns the
\* client's not-connected error and changes neither the router nor the
\* requests under way: a fire-and-acknowledge publish and a durable subscribe
\* return it in their step; a correlated request that is started fails at its
\* first Subscribe and goes to its return with that error; and no call enters
\* its wait step (the select) while the client is disconnected.
C23_NoOperationAfterDisconnect ==
    [][~connected =>
          /\ ret'.op # "none" =>
                /\ ret'.err = NotConnected
                /\ routes' = routes /\ requests' = requests
                /\ durable' = durable
          /\ \A c \in Callers :
                /\ (call[c].pc = "idle" /\ call'[c] # call[c]) =>
                      /\ call'[c].pc = "unsubscribe"
                      /\ call'[c].res = [set |-> TRUE, val |-> Nil, err |-> NotConnected]
                      /\ routes' = routes /\ requests' = requests
                /\ (call[c].pc # "select" /\ call'[c].pc = "select") => FALSE]_vars

\* A correlated request started after Disconnect has failed at its first
\* Subscribe with the not-connected error and is about to return it.
C23_Witness ==
    /\ ~connected
    /\ call[SessionCaller].pc = "unsubscribe"
    /\ call[SessionCaller].acked = {}
    /\ call[SessionCaller].pubs = 0
    /\ call[SessionCaller].res = [set |-> TRUE, val |-> Nil, err |-> NotConnected]

\* ------------------------------------------------------------ credential exchange
\* Everything went well: the request was made and answered with status 200
\* and a body that was read and is JSON.
ExchangeOk(in) ==
    in.urlOk /\ in.doOk /\ in.status = StatusOK /\ in.readable /\ in.body.json

\* C24, amended: GetCredentials returns a nil error exactly when the request
\* was made and answered with status 200 and a body that decodes, and then it
\* returns the credentials of the body; in every other case it returns an
\* error and the empty bundle.  For a non-200 status the error carries the
\* status code and the response body when the body could be read, and is the
\* error of reading the body when it could not.
C24_CredentialsOnlyOnSuccess ==
    exchange.pc = "returned" =>
        LET in == exchange.in
        IN /\ exchange.err = NoErr <=> ExchangeOk(in)
           /\ ExchangeOk(in) => exchange.out = in.body.credentials
           /\ ~ExchangeOk(in) => exchange.out = EmptyOutput
           /\ exchange.out # EmptyOutput => ExchangeOk(in)
           /\ (in.urlOk /\ in.doOk /\ in.status # StatusOK) =>
                 exchange.err = IF in.readable THEN StatusErrorf(in.status, in.body)
                                ELSE Errorf("read body")

\* GetCredentials returned the status error for a non-200 response whose body
\* it read.
C24_Witness ==
    /\ exchange.pc = "returned"
    /\ exchange.in.status = 403
    /\ exchange.out = EmptyOutput
    /\ exchange.err = StatusErrorf(403, exchange.in.body)
    /\ exchange.in.body.json

\* C24 as stated: for every non-200 status the error carries the status code
\* and the response body.
C24_StatusErrorCarriesBody ==
    (/\ exchange.pc = "returned"
     /\ exchange.in.urlOk /\ exchange.in.doOk
     /\ exchange.in.status # StatusOK) =>
        exchange.err = StatusErrorf(exchange.in.status, exchange.in.body)

====
